---- MODULE Spec2Model ----
(***************************************************************************)
(* Model of the company_rating reconciliation code:                        *)
(*   - JobOrchestrator (application/services/job_orchestrator.py): the     *)
(*     lazily loaded job and company lists, deduplication, the job         *)
(*     blacklist filter and get_jobs_dataframe (join, blacklist stage,     *)
(*     rating threshold);                                                  *)
(*   - normalize_name, similarity_score, find_matches and main             *)
(*     (poc/match_company_names.py);                                       *)
(*   - rescrape_companies and rescrape_everything (main.py) over           *)
(*     JobOrchestrator.update_companies and KununuScraper.update;          *)
(*   - scrape_jobs, write and daily_chore (main.py) over the file sinks;   *)
(*   - BlacklistFileBasedAdapter behind the blacklist methods, call by     *)
(*     call, statement by statement under two actors, and beside a         *)
(*     get_jobs_dataframe run taken stage by stage;                        *)
(*   - scrape_company_rating and its strategies (kununu_scraper_poc.py);   *)
(*   - merge_companies (poc/import_kununu_companies.py).                   *)
(* Text is a sequence of one-character strings, so that lower(), strip(),  *)
(* endswith() and split() are computed character by character.             *)
(* A company record carries the columns the join projects and the rating   *)
(* filter reads (name, kununu_rating) and the alternative_names the        *)
(* re-scrape reads; a job record carries job_id and company_name.          *)
(***************************************************************************)
EXTENDS Integers, Sequences, FiniteSets, TLC

VARIABLES
    jobs_csv,            \* what JobQueryFileBasedAdapter.get() returns
    companies_jsonl,     \* the lines of companies.jsonl
    company_blacklist_txt, \* the lines of company_blacklist.txt
    job_blacklist_txt,   \* the lines of job_blacklist.txt
    _jobs,               \* JobOrchestrator._jobs
    _companies,          \* JobOrchestrator._companies
    op,                  \* the orchestrator method that ran last
    arg_min_rating,      \* min_rating of the last get_jobs_dataframe call
    arg_apply_blacklist, \* apply_blacklist of the last get_jobs_dataframe call
    df,                  \* rows of the DataFrame the last get_jobs_dataframe returned
    raised,              \* the exception the last method raised, or "none"
    name,                \* a name given to normalize_name
    other_name,          \* a second name given to normalize_name
    normalized,          \* normalize_name(name)
    other_normalized,    \* normalize_name(other_name)
    renormalized,        \* normalize_name(normalized)
    score,               \* similarity_score(name, other_name)
    swapped_score,       \* similarity_score(other_name, name)
    arg_top_n,           \* top_n of the last find_matches call
    arg_threshold,       \* threshold of the last find_matches call
    matches,             \* what the last find_matches call returned
    printed,             \* the lines main of match_company_names printed
    jobs_jsonl,          \* what JobCommandFileBasedAdapter.write() was given
    scrape_calls,        \* the names given to CompanyScraper.update, in order
    scraped_jobs,        \* what the last JobScraper.jobs() call returned
    job_gets,            \* calls of the job source's get() so far, up to MaxGets
    company_gets,        \* calls of the company source's get() so far, up to MaxGets
    arg_entity,          \* entity of the last BlacklistFileBasedAdapter add or remove
    actors,              \* the add and remove calls in flight, one per actor
    run,                 \* the get_jobs_dataframe call in flight
    arg_existing,        \* existing_companies given to merge_companies
    arg_new,             \* new_companies given to merge_companies
    merged_companies,    \* what merge_companies returned
    outcomes,            \* what each strategy of scrape_company_rating met
    tried,               \* the strategies scrape_company_rating called, in order
    result               \* the KununuResult scrape_company_rating returned

\* The orchestrator and its files.
ovars == <<jobs_csv, companies_jsonl, company_blacklist_txt, job_blacklist_txt,
           _jobs, _companies, arg_min_rating, arg_apply_blacklist, df, raised,
           jobs_jsonl, scrape_calls, scraped_jobs, job_gets, company_gets>>

\* The calls of normalize_name.
nvars == <<name, other_name, normalized, other_normalized, renormalized>>

\* The calls of similarity_score and find_matches, and what main printed.
mvars == <<score, swapped_score, arg_top_n, arg_threshold, matches, printed>>

\* The blacklist store under concurrent actors.
bvars == <<arg_entity, actors, run>>

\* The calls of merge_companies.
ivars == <<arg_existing, arg_new, merged_companies>>

\* The calls of scrape_company_rating.
kvars == <<outcomes, tried, result>>

\* The state outside the orchestrator: match_company_names, the actors on
\* the blacklist store, import_kununu_companies and kununu_scraper_poc.
pvars == <<nvars, mvars, bvars, ivars, kvars>>

vars == <<ovars, pvars, op>>

----------------------------------------------------------------------------
(* Bounds of the model. *)

\* The calls of a source's get() that are told apart: none, one, more.
MaxGets == 2

MaxJobs == 2
MaxCompanies == 2
MaxWords == 4

----------------------------------------------------------------------------
(* Text. *)

\* str.lower() on one character.
LowerChar(c) ==
    CASE c = "A" -> "a" [] c = "B" -> "b" [] c = "C" -> "c" [] c = "D" -> "d"
      [] c = "E" -> "e" [] c = "F" -> "f" [] c = "G" -> "g" [] c = "H" -> "h"
      [] c = "I" -> "i" [] c = "J" -> "j" [] c = "K" -> "k" [] c = "L" -> "l"
      [] c = "M" -> "m" [] c = "N" -> "n" [] c = "O" -> "o" [] c = "P" -> "p"
      [] c = "Q" -> "q" [] c = "R" -> "r" [] c = "S" -> "s" [] c = "T" -> "t"
      [] c = "U" -> "u" [] c = "V" -> "v" [] c = "W" -> "w" [] c = "X" -> "x"
      [] c = "Y" -> "y" [] c = "Z" -> "z"
      [] OTHER -> c

\* str.lower()
Lower(s) == [i \in 1..Len(s) |-> LowerChar(s[i])]

\* The characters str.strip() and str.split() treat as whitespace.
Whitespace == {" ", "\t", "\n", "\r", "\f"}

RECURSIVE LStrip(_)
LStrip(s) ==
    IF s # <<>> /\ Head(s) \in Whitespace THEN LStrip(Tail(s)) ELSE s

RECURSIVE RStrip(_)
RStrip(s) ==
    IF s # <<>> /\ s[Len(s)] \in Whitespace
    THEN RStrip(SubSeq(s, 1, Len(s) - 1))
    ELSE s

\* str.strip()
Strip(s) == LStrip(RStrip(s))

\* The characters of the model in code point order.
CodeOrder ==
    <<"\t", "\n", "\f", "\r", " ", "&", ".", "1", "2",
      "A", "B", "C", "D", "E", "F", "G", "H", "I", "J", "K", "L", "M",
      "N", "O", "P", "Q", "R", "S", "T", "U", "V", "W", "X", "Y", "Z",
      "a", "b", "c", "d", "e", "f", "g", "h", "i", "j", "k", "l", "m",
      "n", "o", "p", "q", "r", "s", "t", "u", "v", "w", "x", "y", "z">>

CodePoint(c) == CHOOSE i \in 1..Len(CodeOrder) : CodeOrder[i] = c

\* s < t as Python compares str: by code point, a proper prefix first.
RECURSIVE StrLess(_, _)
StrLess(s, t) ==
    IF t = <<>> THEN FALSE
    ELSE IF s = <<>> THEN TRUE
    ELSE IF Head(s) = Head(t) THEN StrLess(Tail(s), Tail(t))
    ELSE CodePoint(Head(s)) < CodePoint(Head(t))

\* sorted(S) for a set S of str.
RECURSIVE Sorted(_)
Sorted(S) ==
    IF S = {} THEN <<>>
    ELSE LET least == CHOOSE x \in S : \A y \in S \ {x} : StrLess(x, y)
         IN <<least>> \o Sorted(S \ {least})

\* s.endswith(suffix)
EndsWith(s, suffix) ==
    /\ Len(suffix) <= Len(s)
    /\ SubSeq(s, Len(s) - Len(suffix) + 1, Len(s)) = suffix

\* s.split(): the maximal runs of non-whitespace characters.
RECURSIVE SplitFrom(_, _)
SplitFrom(s, word) ==
    IF s = <<>>
    THEN IF word = <<>> THEN <<>> ELSE <<word>>
    ELSE IF Head(s) \in Whitespace
         THEN IF word = <<>>
              THEN SplitFrom(Tail(s), <<>>)
              ELSE <<word>> \o SplitFrom(Tail(s), <<>>)
         ELSE SplitFrom(Tail(s), Append(word, Head(s)))

Split(s) == SplitFrom(s, <<>>)

\* " ".join(words)
RECURSIVE Join(_)
Join(words) ==
    IF words = <<>> THEN <<>>
    ELSE IF Len(words) = 1 THEN Head(words)
    ELSE Head(words) \o <<" ">> \o Join(Tail(words))

----------------------------------------------------------------------------
(* normalize_name. *)

\* The legal suffixes, in the order the loop tries them.
suffixes ==
    <<<<" ", "g", "m", "b", "h">>,
      <<" ", "g", "m", "b", "h", " ", "&", " ", "c", "o", ".", " ", "k", "g">>,
      <<" ", "g", "m", "b", "h", " ", "&", " ", "c", "o", ".", "k", "g">>,
      <<" ", "g", "m", "b", "h", " ", "&", " ", "c", "o", " ", "k", "g">>,
      <<" ", "a", "g">>,
      <<" ", "s", "e">>,
      <<" ", "k", "g">>,
      <<" ", "o", "h", "g">>,
      <<" ", "g", "b", "r">>,
      <<" ", "u", "g">>,
      <<" ", "i", "n", "c">>,
      <<" ", "i", "n", "c", ".">>,
      <<" ", "c", "o", "r", "p">>,
      <<" ", "c", "o", "r", "p", ".">>,
      <<" ", "l", "t", "d">>,
      <<" ", "l", "t", "d", ".">>,
      <<" ", "l", "l", "c">>,
      <<" ", "l", "l", "c", ".">>,
      <<" ", "c", "o", ".">>,
      <<" ", "c", "o">>,
      <<" ", "g", "r", "o", "u", "p">>>>

\* One turn of the suffix loop.
StripSuffix(s, suffix) ==
    IF EndsWith(s, suffix)
    THEN Strip(SubSeq(s, 1, Len(s) - Len(suffix)))
    ELSE s

\* The suffix loop from the i-th suffix on.
RECURSIVE StripSuffixesFrom(_, _)
StripSuffixesFrom(s, i) ==
    IF i > Len(suffixes) THEN s
    ELSE StripSuffixesFrom(StripSuffix(s, suffixes[i]), i + 1)

normalize_name(n) == Join(Split(StripSuffixesFrom(Strip(Lower(n)), 1)))

----------------------------------------------------------------------------
(* Records. *)

\* Company names as they are displayed: "acme", "ACME", "Acme AG".
NameAcme == <<"a", "c", "m", "e">>
NameACME == <<"A", "C", "M", "E">>
NameAcmeAG == <<"A", "c", "m", "e", " ", "A", "G">>

CompanyNames == {NameAcme, NameACME, NameAcmeAG}
JobCompanyNames == {NameAcme, NameAcmeAG}
JobIds == {<<"1">>, <<"2">>}

\* A rating is optional: <<>> is None / NaN, <<r>> is the number r.
Null == <<>>
Some(r) == <<r>>
FileRatings == {Null, Some(3)}

\* Company.kununu_rating when the constructor is given no rating.
DefaultRating == 0

\* min_rating arguments of get_jobs_dataframe.
MinRatings == {0, 3}

Job(id, cname) == [job_id |-> id, company_name |-> cname]

JobRecords == {Job(id, n) : id \in JobIds, n \in JobCompanyNames}

\* A line of companies.jsonl is a JSON object: the key kununu_rating is
\* absent, or its value is null or a number.
\* The lines of the list-keeping runs: every spelling, not yet rated.
CompanyLines == [name : CompanyNames]

\* The lines of the join runs: the names a job carries, every rating.
JoinCompanyLines ==
    [name : JobCompanyNames] \cup [name : JobCompanyNames, kununu_rating : FileRatings]

SeqsUpTo(S, n) == UNION {[1..k -> S] : k \in 0..n}

\* Company(**json.loads(line)): an absent key takes the dataclass default.
\* The record is the one KununuScraper.update and import_kununu_companies
\* build, with kununu_review_count and glassdoor_review_count, so that the
\* projection of get_jobs_dataframe finds every column it names whenever
\* there is a company; company.py as it stands declares neither field.
\* Of the columns only name and kununu_rating are read after the merge.
Company(line) ==
    [name |-> line.name,
     kununu_rating |-> IF "kununu_rating" \in DOMAIN line
                       THEN line.kununu_rating
                       ELSE Some(DefaultRating),
     alternative_names |-> IF "alternative_names" \in DOMAIN line
                           THEN line.alternative_names
                           ELSE <<>>]

----------------------------------------------------------------------------
(* Ports. *)

\* JobQueryFileBasedAdapter.get
JobQueryGet == jobs_csv

\* CompanyQueryFileBasedAdapter._companies / get
CompanyQueryGet == [i \in 1..Len(companies_jsonl) |-> Company(companies_jsonl[i])]

\* BlacklistFileBasedAdapter.get: the stripped non-empty lines.
RECURSIVE BlacklistGet(_)
BlacklistGet(lines) ==
    IF lines = <<>> THEN <<>>
    ELSE IF Strip(Head(lines)) # <<>>
         THEN <<Strip(Head(lines))>> \o BlacklistGet(Tail(lines))
         ELSE BlacklistGet(Tail(lines))

Range(s) == {s[i] : i \in 1..Len(s)}

----------------------------------------------------------------------------
(* JobOrchestrator. *)

\* A count of get() calls, kept up to MaxGets.
Counted(n) == IF n > MaxGets THEN MaxGets ELSE n

\* The get() calls that `calls` accessor calls in a row make, the first over
\* the held list: an accessor reads the source whenever the list it holds
\* is empty.
GetCalls(held, source, calls) ==
    IF held # <<>> THEN 0
    ELSE IF source # <<>> THEN 1
    ELSE calls

\* JobOrchestrator.jobs: the held list, loaded when it is empty.
JobsOf(held) == IF held = <<>> THEN JobQueryGet ELSE held

\* JobOrchestrator.companies: the held list, loaded when it is empty.
CompaniesOf(held) == IF held = <<>> THEN CompanyQueryGet ELSE held

\* deduplicate_companies keyed by the name as written, lower() left out.
RECURSIVE DedupCompaniesAsWrittenFrom(_, _)
DedupCompaniesAsWrittenFrom(cs, seen_names) ==
    IF cs = <<>> THEN <<>>
    ELSE IF Head(cs).name \notin seen_names
         THEN <<Head(cs)>>
                  \o DedupCompaniesAsWrittenFrom(Tail(cs), seen_names \cup {Head(cs).name})
         ELSE DedupCompaniesAsWrittenFrom(Tail(cs), seen_names)

DedupCompaniesAsWritten(cs) == DedupCompaniesAsWrittenFrom(cs, {})

\* The loop keeping the last company of each name.lower(), not the first.
RECURSIVE DedupCompaniesKeepLastFrom(_, _)
DedupCompaniesKeepLastFrom(cs, seen_names) ==
    IF cs = <<>> THEN <<>>
    ELSE IF \E i \in 2..Len(cs) : Lower(cs[i].name) = Lower(Head(cs).name)
         THEN DedupCompaniesKeepLastFrom(Tail(cs), seen_names)
         ELSE <<Head(cs)>> \o DedupCompaniesKeepLastFrom(Tail(cs), seen_names)

\* The loop of deduplicate_companies: first company of each name.lower().
RECURSIVE DedupCompaniesFrom(_, _)
DedupCompaniesFrom(cs, seen_names) ==
    IF cs = <<>> THEN <<>>
    ELSE LET name_key == Lower(Head(cs).name) IN
         IF name_key \notin seen_names
         THEN <<Head(cs)>> \o DedupCompaniesFrom(Tail(cs), seen_names \cup {name_key})
         ELSE DedupCompaniesFrom(Tail(cs), seen_names)

DedupCompanies(cs) == DedupCompaniesFrom(cs, {})

\* The loop putting each first job in front of the list, not at its end.
RECURSIVE DedupJobsPrependingFrom(_, _)
DedupJobsPrependingFrom(js, seen_ids) ==
    IF js = <<>> THEN <<>>
    ELSE IF Head(js).job_id \notin seen_ids
         THEN DedupJobsPrependingFrom(Tail(js), seen_ids \cup {Head(js).job_id})
                  \o <<Head(js)>>
         ELSE DedupJobsPrependingFrom(Tail(js), seen_ids)

\* The loop of deduplicate_jobs: first job of each job_id.
RECURSIVE DedupJobsFrom(_, _)
DedupJobsFrom(js, seen_ids) ==
    IF js = <<>> THEN <<>>
    ELSE IF Head(js).job_id \notin seen_ids
         THEN <<Head(js)>> \o DedupJobsFrom(Tail(js), seen_ids \cup {Head(js).job_id})
         ELSE DedupJobsFrom(Tail(js), seen_ids)

\* deduplicate_jobs keyed by company_name, as deduplicate_companies is by name.
RECURSIVE DedupJobsByCompanyNameFrom(_, _)
DedupJobsByCompanyNameFrom(js, seen_names) ==
    IF js = <<>> THEN <<>>
    ELSE IF Head(js).company_name \notin seen_names
         THEN <<Head(js)>>
                  \o DedupJobsByCompanyNameFrom(Tail(js),
                                                seen_names \cup {Head(js).company_name})
         ELSE DedupJobsByCompanyNameFrom(Tail(js), seen_names)

DedupJobsByCompanyName(js) == DedupJobsByCompanyNameFrom(js, {})

DedupJobs(js) == DedupJobsFrom(js, {})

\* The comprehension with its test inverted: the blacklisted jobs are kept.
RECURSIVE JobsIn(_, _)
JobsIn(js, blacklist) ==
    IF js = <<>> THEN <<>>
    ELSE IF Head(js).job_id \in Range(blacklist)
         THEN <<Head(js)>> \o JobsIn(Tail(js), blacklist)
         ELSE JobsIn(Tail(js), blacklist)

\* [job for job in self._jobs if job.job_id not in blacklist]
RECURSIVE JobsNotIn(_, _)
JobsNotIn(js, blacklist) ==
    IF js = <<>> THEN <<>>
    ELSE IF Head(js).job_id \notin Range(blacklist)
         THEN <<Head(js)>> \o JobsNotIn(Tail(js), blacklist)
         ELSE JobsNotIn(Tail(js), blacklist)

\* A row of the merged DataFrame.
Row(job, rating) ==
    [job_id |-> job.job_id, company_name |-> job.company_name,
     kununu_rating |-> rating]

\* The merge on the normalized names instead of the names as written.
RECURSIVE RowsOfJobByKey(_, _, _)
RowsOfJobByKey(job, cs, matched) ==
    IF cs = <<>>
    THEN IF matched THEN <<>> ELSE <<Row(job, Null)>>
    ELSE IF normalize_name(Head(cs).name) = normalize_name(job.company_name)
         THEN <<Row(job, Head(cs).kununu_rating)>> \o RowsOfJobByKey(job, Tail(cs), TRUE)
         ELSE RowsOfJobByKey(job, Tail(cs), matched)

\* The rows pd.merge(how="left") gives one job: one per company whose name
\* equals the job's company_name, in the companies' order, or one with NaN.
RECURSIVE RowsOfJob(_, _, _)
RowsOfJob(job, cs, matched) ==
    IF cs = <<>>
    THEN IF matched THEN <<>> ELSE <<Row(job, Null)>>
    ELSE IF Head(cs).name = job.company_name
         THEN <<Row(job, Head(cs).kununu_rating)>> \o RowsOfJob(job, Tail(cs), TRUE)
         ELSE RowsOfJob(job, Tail(cs), matched)

\* pd.merge(jobs_df, companies_df[...], left_on="company_name",
\*          right_on="name", how="left")
RECURSIVE Merge(_, _)
Merge(js, cs) ==
    IF js = <<>> THEN <<>>
    ELSE RowsOfJob(Head(js), cs, FALSE) \o Merge(Tail(js), cs)

\* if company_blacklist: merged[~merged["company_name"].isin(company_blacklist)]
CompanyBlacklistPass(rows, company_blacklist) ==
    IF company_blacklist # <<>>
    THEN LET Keep(r) == r.company_name \notin Range(company_blacklist)
         IN SelectSeq(rows, Keep)
    ELSE rows

\* The job pass testing the company_name column, as the company pass does.
JobBlacklistPassOnCompanyName(rows, job_blacklist) ==
    IF job_blacklist # <<>>
    THEN LET Keep(r) == r.company_name \notin Range(job_blacklist)
         IN SelectSeq(rows, Keep)
    ELSE rows

\* if job_blacklist: merged[~merged["job_id"].isin(job_blacklist)]
JobBlacklistPass(rows, job_blacklist) ==
    IF job_blacklist # <<>>
    THEN LET Keep(r) == r.job_id \notin Range(job_blacklist)
         IN SelectSeq(rows, Keep)
    ELSE rows

\* The blacklist stage of get_jobs_dataframe.
BlacklistStage(rows, apply_blacklist) ==
    IF apply_blacklist
    THEN JobBlacklistPass(
             CompanyBlacklistPass(rows, BlacklistGet(company_blacklist_txt)),
             BlacklistGet(job_blacklist_txt))
    ELSE rows

\* The row mask with > for >=.
RatingMaskAbove(r, min_rating) ==
    \/ r.kununu_rating # Null /\ r.kununu_rating[1] > min_rating
    \/ r.kununu_rating = Null

\* The row mask (kununu_rating >= min_rating) | kununu_rating.isna()
RatingMask(r, min_rating) ==
    \/ r.kununu_rating # Null /\ r.kununu_rating[1] >= min_rating
    \/ r.kununu_rating = Null

\* The rating stage of get_jobs_dataframe.
RatingStage(rows, min_rating) ==
    IF min_rating > 0
    THEN LET Keep(r) == RatingMask(r, min_rating) IN SelectSeq(rows, Keep)
    ELSE rows

----------------------------------------------------------------------------
(* State machine of one JobOrchestrator over its files. *)

\* The blacklists a BlacklistFileBasedAdapter can have written over E: sorted,
\* no entry twice.
BlacklistFiles(E) == {Sorted(S) : S \in SUBSET E}

\* The orchestrator right after construction, no DataFrame asked for yet.
Fresh ==
    /\ _jobs = <<>>
    /\ _companies = <<>>
    /\ op = "init"
    /\ arg_min_rating = 0
    /\ arg_apply_blacklist = TRUE
    /\ df = <<>>
    /\ raised = "none"
    /\ jobs_jsonl = <<>>
    /\ scrape_calls = <<>>
    /\ scraped_jobs = <<>>
    /\ job_gets = 0
    /\ company_gets = 0

\* normalize_name not called.
NoNames ==
    /\ name = <<>>
    /\ other_name = <<>>
    /\ normalized = <<>>
    /\ other_normalized = <<>>
    /\ renormalized = <<>>

\* similarity_score and find_matches not called, nothing printed.
NoMatches ==
    /\ score = <<>>
    /\ swapped_score = <<>>
    /\ arg_top_n = 0
    /\ arg_threshold = <<>>
    /\ matches = <<>>
    /\ printed = <<>>

\* The threads and processes that work on one blacklist file.
Actors == {"a", "b"}

\* No add or remove called, no get_jobs_dataframe in flight.
NoActors ==
    /\ arg_entity = <<>>
    /\ actors = [a \in Actors |-> [pc |-> "idle", call |-> "none",
                                    entity |-> <<>>, blacklist |-> {}]]
    /\ run = [pc |-> "idle", merged |-> <<>>, company_blacklist_txt |-> <<>>,
              job_blacklist_txt |-> <<>>]

\* merge_companies not called.
NoMerge ==
    /\ arg_existing = <<>>
    /\ arg_new = <<>>
    /\ merged_companies = <<>>

\* scrape_company_rating not called.
NoResult ==
    /\ outcomes = <<>>
    /\ tried = <<>>
    /\ result = <<>>

Init ==
    /\ jobs_csv \in SeqsUpTo(JobRecords, MaxJobs)
    /\ companies_jsonl \in SeqsUpTo(CompanyLines, MaxCompanies)
    /\ company_blacklist_txt = <<>>
    /\ job_blacklist_txt \in BlacklistFiles(JobIds)
    /\ Fresh
    /\ NoNames
    /\ NoMatches
    /\ NoActors
    /\ NoMerge
    /\ NoResult

Files == <<jobs_csv, companies_jsonl, company_blacklist_txt, job_blacklist_txt,
           jobs_jsonl>>

\* What a method that returns no DataFrame leaves in the call record.
NoDataframe ==
    /\ arg_min_rating' = 0
    /\ arg_apply_blacklist' = TRUE
    /\ df' = <<>>
    /\ raised' = "none"

\* jobs()
jobs ==
    /\ _jobs' = JobsOf(_jobs)
    /\ job_gets' = Counted(job_gets + GetCalls(_jobs, JobQueryGet, 1))
    /\ op' = "jobs"
    /\ NoDataframe
    /\ UNCHANGED <<Files, _companies, scrape_calls, scraped_jobs, company_gets, pvars>>

\* companies()
companies ==
    /\ _companies' = CompaniesOf(_companies)
    /\ company_gets' = Counted(company_gets + GetCalls(_companies, CompanyQueryGet, 1))
    /\ op' = "companies"
    /\ NoDataframe
    /\ UNCHANGED <<Files, _jobs, scrape_calls, scraped_jobs, job_gets, pvars>>

\* deduplicate_companies()
deduplicate_companies ==
    /\ _companies' = DedupCompanies(CompaniesOf(_companies))
    /\ company_gets' = Counted(company_gets + GetCalls(_companies, CompanyQueryGet, 2))
    /\ op' = "deduplicate_companies"
    /\ NoDataframe
    /\ UNCHANGED <<Files, _jobs, scrape_calls, scraped_jobs, job_gets, pvars>>

\* deduplicate_jobs()
deduplicate_jobs ==
    /\ _jobs' = DedupJobs(JobsOf(_jobs))
    /\ job_gets' = Counted(job_gets + GetCalls(_jobs, JobQueryGet, 2))
    /\ op' = "deduplicate_jobs"
    /\ NoDataframe
    /\ UNCHANGED <<Files, _companies, scrape_calls, scraped_jobs, company_gets, pvars>>

\* filter_blacklisted_jobs()
filter_blacklisted_jobs ==
    /\ LET blacklist == BlacklistGet(job_blacklist_txt) IN
         IF blacklist = <<>>
         THEN _jobs' = _jobs
         ELSE _jobs' = JobsNotIn(_jobs, blacklist)
    /\ op' = "filter_blacklisted_jobs"
    /\ NoDataframe
    /\ UNCHANGED <<Files, _companies, scrape_calls, scraped_jobs, job_gets,
                   company_gets, pvars>>

\* get_jobs_dataframe(min_rating, apply_blacklist)
get_jobs_dataframe(min_rating, apply_blacklist) ==
    LET deduplicated_jobs == DedupJobs(JobsOf(_jobs))
        held_jobs == JobsOf(deduplicated_jobs)
        held_companies == CompaniesOf(_companies)
    IN /\ _jobs' = held_jobs
       /\ _companies' = held_companies
       /\ job_gets' = Counted(job_gets + GetCalls(_jobs, JobQueryGet, 3))
       /\ company_gets' = Counted(company_gets
                                      + GetCalls(_companies, CompanyQueryGet, 1))
       /\ op' = "get_jobs_dataframe"
       /\ arg_min_rating' = min_rating
       /\ arg_apply_blacklist' = apply_blacklist
       /\ IF held_jobs = <<>>
          THEN df' = <<>> /\ raised' = "none"
          ELSE IF held_companies = <<>>
          THEN df' = <<>> /\ raised' = "KeyError"
          ELSE /\ df' = RatingStage(
                            BlacklistStage(Merge(held_jobs, held_companies),
                                           apply_blacklist),
                            min_rating)
               /\ raised' = "none"
       /\ UNCHANGED <<Files, scrape_calls, scraped_jobs, pvars>>

Next ==
    \/ jobs
    \/ companies
    \/ deduplicate_companies
    \/ deduplicate_jobs
    \/ filter_blacklisted_jobs

Spec == Init /\ [][Next]_vars

----------------------------------------------------------------------------
(* The consolidated view: get_jobs_dataframe over the files, before and    *)
(* after deduplicate_companies.                                            *)

\* apply_blacklist as the callers give it: the default of main.py, True
\* from streamlit_app.py.
ApplyBlacklistArgs == {TRUE}

InitDataframe ==
    /\ jobs_csv \in SeqsUpTo(JobRecords, MaxJobs)
    /\ companies_jsonl \in SeqsUpTo(JoinCompanyLines, MaxCompanies)
    /\ company_blacklist_txt \in BlacklistFiles({NameAcmeAG})
    /\ job_blacklist_txt \in BlacklistFiles({<<"1">>})
    /\ Fresh
    /\ NoNames
    /\ NoMatches
    /\ NoActors
    /\ NoMerge
    /\ NoResult

NextDataframe ==
    \/ deduplicate_companies
    \/ \E m \in MinRatings, b \in ApplyBlacklistArgs : get_jobs_dataframe(m, b)

SpecDataframe == InitDataframe /\ [][NextDataframe]_vars

----------------------------------------------------------------------------
(* normalize_name over names made of words, a name and a respelling of it. *)

\* The words of the names: a proper name and words of the legal suffixes.
Words ==
    {<<"F", "O", "O">>, <<"G", "M", "B", "H">>, <<"A", "G">>, <<"&">>,
     <<"C", "O", ".", "K", "G">>}

\* The widths of a run of spaces between two words, and around the name.
GapWidths == {1, 2}
EdgeWidths == {0, 1}

Spaces(n) == [i \in 1..n |-> " "]

\* The words ws with gaps[i] spaces before the i-th word and trailing
\* spaces after the last.
RECURSIVE Spell(_, _, _)
Spell(ws, gaps, trailing) ==
    IF ws = <<>> THEN Spaces(trailing)
    ELSE Spaces(Head(gaps)) \o Head(ws) \o Spell(Tail(ws), Tail(gaps), trailing)

\* The words in lower case, one space between two words, none around.
Plain(ws) == Lower(Spell(ws, [i \in 1..Len(ws) |-> IF i = 1 THEN 0 ELSE 1], 0))

\* The gap widths of a respelling of k words.
Gaps(k) ==
    {g \in [1..k -> GapWidths \cup EdgeWidths] :
        /\ g[1] \in EdgeWidths
        /\ \A i \in 2..k : g[i] \in GapWidths}

InitNormalize ==
    /\ jobs_csv = <<>>
    /\ companies_jsonl = <<>>
    /\ company_blacklist_txt = <<>>
    /\ job_blacklist_txt = <<>>
    /\ Fresh
    /\ \E k \in 1..MaxWords :
         \E ws \in [1..k -> Words], g \in Gaps(k),
            trailing \in EdgeWidths, upper \in BOOLEAN :
            /\ name = Plain(ws)
            /\ other_name = IF upper THEN Spell(ws, g, trailing)
                                     ELSE Lower(Spell(ws, g, trailing))
    /\ normalized = <<>>
    /\ other_normalized = <<>>
    /\ renormalized = <<>>
    /\ NoMatches
    /\ NoActors
    /\ NoMerge
    /\ NoResult

\* normalize_name(name) and normalize_name(other_name)
normalize_names ==
    /\ op = "init"
    /\ normalized' = normalize_name(name)
    /\ other_normalized' = normalize_name(other_name)
    /\ op' = "normalize_name"
    /\ UNCHANGED <<ovars, mvars, bvars, ivars, kvars, name, other_name, renormalized>>

\* normalize_name(normalize_name(name))
normalize_again ==
    /\ op = "normalize_name"
    /\ renormalized' = normalize_name(normalized)
    /\ op' = "normalize_again"
    /\ UNCHANGED <<ovars, mvars, bvars, ivars, kvars, name, other_name, normalized,
                   other_normalized>>

NextNormalize ==
    \/ normalize_names
    \/ normalize_again

SpecNormalize == InitNormalize /\ [][NextNormalize]_vars

----------------------------------------------------------------------------
(* similarity_score, find_matches and main of match_company_names.         *)
(* A score is the float 2.0 * m / t kept as the pair <<2 * m, t>>; two     *)
(* such quotients of small integers are the same float exactly when the    *)
(* fractions are equal.                                                    *)

\* The floats 0.0 and 1.0.
Zero == <<0, 1>>
One == <<1, 1>>

\* s >= t and s == t on scores.
ScoreGE(s, t) == s[1] * t[2] >= t[1] * s[2]
ScoreEq(s, t) == s[1] * t[2] = t[1] * s[2]

\* The length of the longest common prefix of a and b.
RECURSIVE common_prefix(_, _)
common_prefix(a, b) ==
    IF a = <<>> \/ b = <<>> \/ Head(a) # Head(b) THEN 0
    ELSE 1 + common_prefix(Tail(a), Tail(b))

\* The loops of SequenceMatcher.find_longest_match with no junk, from
\* a[i] and b[j] on: a block replaces the best one only when it is longer.
RECURSIVE longest_match_from(_, _, _, _, _)
longest_match_from(a, b, i, j, best) ==
    IF i > Len(a) THEN best
    ELSE IF j > Len(b) THEN longest_match_from(a, b, i + 1, 1, best)
    ELSE LET k == common_prefix(SubSeq(a, i, Len(a)), SubSeq(b, j, Len(b)))
         IN longest_match_from(a, b, i, j + 1,
                               IF k > best[3] THEN <<i, j, k>> ELSE best)

\* find_longest_match: <<i, j, k>> with a[i .. i+k-1] = b[j .. j+k-1], a
\* longest such block, of those the one that starts earliest in a, of those
\* the one that starts earliest in b; k = 0 when there is none.
find_longest_match(a, b) == longest_match_from(a, b, 1, 1, <<1, 1, 0>>)

\* The sum of the sizes of SequenceMatcher.get_matching_blocks: the longest
\* match, then the same to the left and to the right of it.
RECURSIVE matching_size(_, _)
matching_size(a, b) ==
    LET t == find_longest_match(a, b) IN
    IF t[3] = 0 THEN 0
    ELSE t[3] + matching_size(SubSeq(a, 1, t[1] - 1), SubSeq(b, 1, t[2] - 1))
              + matching_size(SubSeq(a, t[1] + t[3], Len(a)),
                              SubSeq(b, t[2] + t[3], Len(b)))

\* SequenceMatcher(None, a, b).ratio(): 2.0 * matches / length, and 1.0
\* when both sequences are empty.
ratio(a, b) ==
    IF Len(a) + Len(b) = 0 THEN One
    ELSE <<2 * matching_size(a, b), Len(a) + Len(b)>>

similarity_score(name1, name2) == ratio(normalize_name(name1), normalize_name(name2))

\* A tuple (company.name, score) of find_matches.
Match(n, s) == [name |-> n, score |-> s]

\* The loop of find_matches: the candidates that reach the threshold, in
\* the order of existing_companies.
RECURSIVE Scored(_, _, _)
Scored(unsorted_name, existing_companies, threshold) ==
    IF existing_companies = <<>> THEN <<>>
    ELSE LET company == Head(existing_companies)
             s == similarity_score(unsorted_name, company.name)
             rest == Scored(unsorted_name, Tail(existing_companies), threshold)
         IN IF ScoreGE(s, threshold) THEN <<Match(company.name, s)>> \o rest ELSE rest

\* m put before the entries of its score: what sorting ascending and then
\* reversing the list does to ties.
RECURSIVE InsertBeforeTies(_, _)
InsertBeforeTies(sorted, m) ==
    IF sorted = <<>> THEN <<m>>
    ELSE IF ScoreGE(Head(sorted).score, m.score) /\ ~ScoreEq(Head(sorted).score, m.score)
         THEN <<Head(sorted)>> \o InsertBeforeTies(Tail(sorted), m)
         ELSE <<m>> \o sorted

\* m put behind every entry of at least its score.
RECURSIVE InsertByScore(_, _)
InsertByScore(sorted, m) ==
    IF sorted = <<>> THEN <<m>>
    ELSE IF ScoreGE(Head(sorted).score, m.score)
         THEN <<Head(sorted)>> \o InsertByScore(Tail(sorted), m)
         ELSE <<m>> \o sorted

\* matches.sort(key=lambda x: x[1], reverse=True): descending by score, the
\* sort is stable also when reversed.
RECURSIVE SortByScore(_)
SortByScore(ms) ==
    IF ms = <<>> THEN <<>>
    ELSE InsertByScore(SortByScore(SubSeq(ms, 1, Len(ms) - 1)), ms[Len(ms)])

\* matches[:top_n] for top_n >= 0
Truncate(ms, top_n) == SubSeq(ms, 1, IF top_n < Len(ms) THEN top_n ELSE Len(ms))

find_matches(unsorted_name, existing_companies, top_n, threshold) ==
    Truncate(SortByScore(Scored(unsorted_name, existing_companies, threshold)), top_n)

\* The arguments main gives find_matches.
MainTopN == 3
MainThreshold == <<3, 5>>

\* What main prints for one name: the branch taken and the names shown.
Printed(branch, shown) == [branch |-> branch, names |-> shown]

\* The if/else of main over the matches of one name.
Classify(ms) ==
    IF ms # <<>>
    THEN IF ScoreEq(ms[1].score, One)
         THEN Printed("perfect match", <<ms[1].name>>)
         ELSE Printed("candidates", [i \in 1..Len(ms) |-> ms[i].name])
    ELSE Printed("no match found", <<>>)

\* [line.strip() for line in f if line.strip()]
StrippedLines(lines) == BlacklistGet(lines)

\* The names of the matcher runs: empty, blank, a name, the name with a
\* legal suffix, and a name close to it.
NameEmpty == <<>>
NameBlank == <<" ">>
NameAece == <<"a", "e", "c", "e">>
MatchNames == {NameEmpty, NameBlank, NameAcme, NameAcmeAG, NameAece}

\* The names of the companies find_matches is given: of the two names of
\* the empty key the blank one.
CandidateNames == MatchNames \ {NameEmpty}

MaxCandidates == 3

\* top_n and threshold arguments of find_matches: the defaults, and a
\* shorter and a stricter one.
TopNs == {1, 3}
Thresholds == {<<3, 5>>, <<4, 5>>}

InitMatch ==
    /\ jobs_csv = <<>>
    /\ companies_jsonl \in SeqsUpTo([name : CandidateNames], MaxCandidates)
    /\ company_blacklist_txt = <<>>
    /\ job_blacklist_txt = <<>>
    /\ Fresh
    /\ name \in MatchNames
    /\ other_name = <<>>
    /\ normalized = <<>>
    /\ other_normalized = <<>>
    /\ renormalized = <<>>
    /\ NoMatches
    /\ NoActors
    /\ NoMerge
    /\ NoResult

\* What a step of the matcher leaves of the calls before it.
NoFindMatches ==
    /\ arg_top_n' = 0
    /\ arg_threshold' = <<>>
    /\ matches' = <<>>

\* similarity_score(name, n) and similarity_score(n, name)
similarity_scores(n) ==
    /\ op = "init"
    /\ other_name' = n
    /\ score' = similarity_score(name, n)
    /\ swapped_score' = similarity_score(n, name)
    /\ NoFindMatches
    /\ printed' = <<>>
    /\ op' = "similarity_score"
    /\ UNCHANGED <<ovars, bvars, ivars, kvars, name, normalized, other_normalized,
                   renormalized>>

\* find_matches(name, existing_companies, top_n, threshold), once or a
\* second time with the same arguments
find_matches_call(top_n, threshold) ==
    /\ \/ op = "init"
       \/ op = "find_matches" /\ arg_top_n = top_n /\ arg_threshold = threshold
    /\ arg_top_n' = top_n
    /\ arg_threshold' = threshold
    /\ matches' = find_matches(name, CompanyQueryGet, top_n, threshold)
    /\ other_name' = <<>>
    /\ score' = <<>>
    /\ swapped_score' = <<>>
    /\ printed' = <<>>
    /\ op' = "find_matches"
    /\ UNCHANGED <<ovars, bvars, ivars, kvars, name, normalized, other_normalized,
                   renormalized>>

\* main() with beworben.txt holding the one line name
main ==
    LET unsorted_names == StrippedLines(<<name>>) IN
    /\ op = "init"
    /\ IF unsorted_names = <<>>
       THEN /\ NoFindMatches
            /\ printed' = <<>>
       ELSE LET ms == find_matches(unsorted_names[1], CompanyQueryGet,
                                   MainTopN, MainThreshold)
            IN /\ arg_top_n' = MainTopN
               /\ arg_threshold' = MainThreshold
               /\ matches' = ms
               /\ printed' = <<Classify(ms)>>
    /\ other_name' = <<>>
    /\ score' = <<>>
    /\ swapped_score' = <<>>
    /\ op' = "main"
    /\ UNCHANGED <<ovars, bvars, ivars, kvars, name, normalized, other_normalized,
                   renormalized>>

NextMatch ==
    \/ \E n \in MatchNames : similarity_scores(n)
    \/ \E top_n \in TopNs, threshold \in Thresholds : find_matches_call(top_n, threshold)
    \/ main

SpecMatch == InitMatch /\ [][NextMatch]_vars

----------------------------------------------------------------------------
(* The re-scrape: rescrape_companies and rescrape_everything of main.py.   *)
(* Each run builds its own JobOrchestrator over the files.                 *)

\* The alternative name that marks a company as not to be scraped.
NameVoid == <<"v", "o", "i", "d">>

\* s.replace(old, new) for single characters.
Replace(s, old, new) == [i \in 1..Len(s) |-> IF s[i] = old THEN new ELSE s[i]]

\* What page.goto of one update call ends in: the profile page, another
\* status, or an exception.
ScrapeStatuses == {"200", "404", "timeout"}

\* The rating _scrape_rating reads from a profile page.
ScrapedRating == 4

\* json.dumps(asdict(company))
CompanyLine(c) ==
    [name |-> c.name, kununu_rating |-> c.kununu_rating,
     alternative_names |-> c.alternative_names]

\* CompanyCommandFileBasedAdapter.write
CompanyCommandWrite(cs) == [i \in 1..Len(cs) |-> CompanyLine(cs[i])]

\* The comprehension of rescrape_companies: no rating yet, and no
\* alternative name or a first one that is not "void".
ToScrape(c) ==
    \/ /\ c.alternative_names # <<>>
       /\ c.alternative_names[1] # NameVoid
       /\ c.kununu_rating = Null
    \/ /\ c.alternative_names = <<>>
       /\ c.kununu_rating = Null

\* name_to_scrape of _scrape
NameToScrape(c) ==
    IF c.alternative_names # <<>>
    THEN c.alternative_names[1]
    ELSE Replace(c.name, " ", "-")

\* KununuScraper.update: the company built from the scrape of company_name.
Update(company_name, status) ==
    [name |-> company_name,
     kununu_rating |-> IF status = "200" THEN Some(ScrapedRating) ELSE Null,
     alternative_names |-> <<>>]

\* One call of CompanyScraper.update as scrape_calls records it.
Call(company_name, status) == [name |-> company_name, status |-> status]

\* The number of update calls the loop of _scrape makes: all, or up to the
\* first that raises.
CallsMade(cs, statuses) ==
    LET raising == {i \in 1..Len(cs) : statuses[i] = "timeout"}
    IN IF raising = {} THEN Len(cs)
       ELSE CHOOSE i \in raising : \A k \in raising : i <= k

\* _scrape: the calls made, the list returned and the exception raised.
Scrape(cs, statuses) ==
    LET n == CallsMade(cs, statuses)
        completed == \A i \in 1..Len(cs) : statuses[i] # "timeout"
    IN [calls |-> [i \in 1..n |-> Call(NameToScrape(cs[i]), statuses[i])],
        updated_companies |->
            IF completed
            THEN [i \in 1..Len(cs) |-> Update(NameToScrape(cs[i]), statuses[i])]
            ELSE <<>>,
        raised |-> IF completed THEN "none" ELSE "TimeoutError"]

\* updated_map.get(c.name, c) for updated_map = {c.name: c for c in updated}
UpdatedMapGet(updated, c) ==
    LET same == {i \in 1..Len(updated) : updated[i].name = c.name}
    IN IF same = {} THEN c
       ELSE updated[CHOOSE i \in same : \A k \in same : k <= i]

\* [updated_map.get(c.name, c) for c in all_companies]
MergeBack(all_companies, updated) ==
    [i \in 1..Len(all_companies) |-> UpdatedMapGet(updated, all_companies[i])]

\* rescrape_companies() with the i-th update call ending in statuses[i]
rescrape_companies(statuses) ==
    LET all_companies == CompanyQueryGet
        companies_to_scrape == SelectSeq(all_companies, ToScrape)
        scraped == Scrape(companies_to_scrape, statuses)
        merged == MergeBack(all_companies, scraped.updated_companies)
    IN /\ DOMAIN statuses = 1..Len(companies_to_scrape)
       /\ op' = "rescrape_companies"
       /\ arg_min_rating' = 0
       /\ arg_apply_blacklist' = TRUE
       /\ df' = <<>>
       /\ UNCHANGED <<jobs_csv, company_blacklist_txt, job_blacklist_txt,
                      scraped_jobs, pvars>>
       /\ IF companies_to_scrape = <<>>
          THEN /\ _companies' = all_companies
               /\ _jobs' = <<>>
               /\ scrape_calls' = <<>>
               /\ raised' = "none"
               /\ company_gets' = Counted(GetCalls(<<>>, all_companies, 1))
               /\ job_gets' = 0
               /\ UNCHANGED <<companies_jsonl, jobs_jsonl>>
          ELSE IF scraped.raised # "none"
          THEN /\ _companies' = companies_to_scrape
               /\ _jobs' = <<>>
               /\ scrape_calls' = scraped.calls
               /\ raised' = scraped.raised
               /\ company_gets' = Counted(GetCalls(<<>>, all_companies, 1))
               /\ job_gets' = 0
               /\ UNCHANGED <<companies_jsonl, jobs_jsonl>>
          ELSE /\ _companies' = merged
               /\ _jobs' = JobQueryGet
               /\ scrape_calls' = scraped.calls
               /\ raised' = "none"
               /\ company_gets' = Counted(GetCalls(<<>>, all_companies, 1))
               /\ job_gets' = Counted(GetCalls(<<>>, JobQueryGet, 1))
               /\ companies_jsonl' = CompanyCommandWrite(CompaniesOf(merged))
               /\ jobs_jsonl' = JobQueryGet

\* rescrape_everything() with the i-th update call ending in statuses[i]:
\* update_companies() over every company of the file, then write()
rescrape_everything(statuses) ==
    LET all_companies == CompanyQueryGet
        scraped == Scrape(all_companies, statuses)
    IN /\ DOMAIN statuses = 1..Len(all_companies)
       /\ op' = "rescrape_everything"
       /\ arg_min_rating' = 0
       /\ arg_apply_blacklist' = TRUE
       /\ df' = <<>>
       /\ UNCHANGED <<jobs_csv, company_blacklist_txt, job_blacklist_txt,
                      scraped_jobs, pvars>>
       /\ scrape_calls' = scraped.calls
       /\ raised' = scraped.raised
       /\ IF scraped.raised # "none"
          THEN /\ _companies' = all_companies
               /\ _jobs' = <<>>
               /\ company_gets' = Counted(GetCalls(<<>>, all_companies, 1))
               /\ job_gets' = 0
               /\ UNCHANGED <<companies_jsonl, jobs_jsonl>>
          ELSE /\ _companies' = CompaniesOf(scraped.updated_companies)
               /\ _jobs' = JobQueryGet
               /\ company_gets' =
                      Counted(GetCalls(<<>>, all_companies, 1)
                              + GetCalls(scraped.updated_companies,
                                         all_companies, 1))
               /\ job_gets' = Counted(GetCalls(<<>>, JobQueryGet, 1))
               /\ companies_jsonl' =
                      CompanyCommandWrite(CompaniesOf(scraped.updated_companies))
               /\ jobs_jsonl' = JobQueryGet

\* The lines of the re-scrape runs: a name with and without a space, rated
\* or not, with no alternative name, one that is another company's name, or
\* "void".
RescrapeLines ==
    [name : JobCompanyNames, kununu_rating : FileRatings,
     alternative_names : {<<>>, <<NameAcme>>, <<NameVoid>>}]

InitRescrape ==
    /\ jobs_csv = <<Job(<<"1">>, NameAcme)>>
    /\ companies_jsonl \in SeqsUpTo(RescrapeLines, MaxCompanies)
    /\ company_blacklist_txt = <<>>
    /\ job_blacklist_txt = <<>>
    /\ Fresh
    /\ NoNames
    /\ NoMatches
    /\ NoActors
    /\ NoMerge
    /\ NoResult

NextRescrape ==
    \/ \E statuses \in SeqsUpTo(ScrapeStatuses, MaxCompanies) : rescrape_companies(statuses)
    \/ \E statuses \in SeqsUpTo(ScrapeStatuses, MaxCompanies) : rescrape_everything(statuses)

SpecRescrape == InitRescrape /\ [][NextRescrape]_vars

----------------------------------------------------------------------------
(* The daily run: scrape_jobs, write and daily_chore of main.py, beside    *)
(* the accessors and the job blacklist filter.                             *)

\* JobCommandFileBasedAdapter.write: one line per job.
JobCommandWrite(js) == js

\* The lines a sink holds when its write failed: none of the file is
\* touched when open() raised (written = -1), else the file was truncated
\* by open() and holds the lines written before the exception.
FailedWrite(file, lines, written) ==
    IF written = -1 THEN file ELSE SubSeq(lines, 1, written)

\* Where a write() call fails: in no sink, in the company sink or in the
\* job sink.
Sinks == {"none", "company", "job"}

\* The lines a sink can have written before it fails, -1 for a failing
\* open().
WrittenBefore == -1..(MaxJobs + MaxCompanies)

\* The exception a failing sink raises.
SinkError == "OSError"

\* JobspyScraper.jobs() when the sites hold `found`: the list is scraped
\* once and kept while it is not empty.
ScraperJobs(found) == IF scraped_jobs # <<>> THEN scraped_jobs ELSE found

\* scrape_jobs() with the sites holding `found`
scrape_jobs(found) ==
    /\ scraped_jobs' = ScraperJobs(found)
    /\ _jobs' = ScraperJobs(found)
    /\ op' = "scrape_jobs"
    /\ NoDataframe
    /\ UNCHANGED <<Files, _companies, scrape_calls, job_gets, company_gets, pvars>>

\* write() failing in `sink` after `written` lines (open() failing: -1)
write(sink, written) ==
    LET held_companies == CompaniesOf(_companies)
        company_lines == CompanyCommandWrite(held_companies)
        held_jobs == JobsOf(_jobs)
        job_lines == JobCommandWrite(held_jobs)
    IN /\ _companies' = held_companies
       /\ company_gets' = Counted(company_gets
                                      + GetCalls(_companies, CompanyQueryGet, 1))
       /\ op' = "write"
       /\ arg_min_rating' = 0
       /\ arg_apply_blacklist' = TRUE
       /\ df' = <<>>
       /\ UNCHANGED <<jobs_csv, company_blacklist_txt, job_blacklist_txt,
                      scrape_calls, scraped_jobs, pvars>>
       /\ IF sink = "company"
          THEN /\ written \in -1..(Len(company_lines) - 1)
               /\ companies_jsonl' =
                      FailedWrite(companies_jsonl, company_lines, written)
               /\ raised' = SinkError
               /\ UNCHANGED <<_jobs, job_gets, jobs_jsonl>>
          ELSE /\ companies_jsonl' = company_lines
               /\ _jobs' = held_jobs
               /\ job_gets' = Counted(job_gets + GetCalls(_jobs, JobQueryGet, 1))
               /\ IF sink = "job"
                  THEN /\ written \in -1..(Len(job_lines) - 1)
                       /\ jobs_jsonl' = FailedWrite(jobs_jsonl, job_lines, written)
                       /\ raised' = SinkError
                  ELSE /\ written = 0
                       /\ jobs_jsonl' = job_lines
                       /\ raised' = "none"

\* daily_chore() with the sites holding `found`: a new orchestrator and a
\* new scraper; scrape_jobs, filter_blacklisted_jobs, deduplicate_jobs,
\* write.
daily_chore(found) ==
    LET blacklist == BlacklistGet(job_blacklist_txt)
        filtered == IF blacklist = <<>> THEN found
                    ELSE JobsNotIn(found, blacklist)
        deduplicated == DedupJobs(JobsOf(filtered))
        held_companies == CompaniesOf(<<>>)
        held_jobs == JobsOf(deduplicated)
    IN /\ scraped_jobs' = found
       /\ _jobs' = held_jobs
       /\ _companies' = held_companies
       /\ job_gets' = Counted(GetCalls(filtered, JobQueryGet, 2)
                               + GetCalls(deduplicated, JobQueryGet, 1))
       /\ company_gets' = Counted(GetCalls(<<>>, CompanyQueryGet, 1))
       /\ companies_jsonl' = CompanyCommandWrite(held_companies)
       /\ jobs_jsonl' = JobCommandWrite(held_jobs)
       /\ op' = "daily_chore"
       /\ NoDataframe
       /\ UNCHANGED <<jobs_csv, company_blacklist_txt, job_blacklist_txt,
                      scrape_calls, pvars>>

\* The jobs of jobs.csv and of the sites in the daily runs.
RunJobs == {Job(<<"1">>, NameAcme), Job(<<"1">>, NameAcmeAG), Job(<<"2">>, NameAcme)}

\* The lines of companies.jsonl in the daily runs.
RunCompanyLines == [name : {NameAcme}, kununu_rating : {Some(3)}]

InitRun ==
    /\ jobs_csv \in SeqsUpTo({Job(<<"2">>, NameAcme)}, 1)
    /\ companies_jsonl \in SeqsUpTo(RunCompanyLines, MaxCompanies)
    /\ company_blacklist_txt = <<>>
    /\ job_blacklist_txt \in BlacklistFiles(JobIds)
    /\ Fresh
    /\ NoNames
    /\ NoMatches
    /\ NoActors
    /\ NoMerge
    /\ NoResult

NextRun ==
    \/ jobs
    \/ filter_blacklisted_jobs
    \/ \E found \in SeqsUpTo(RunJobs, MaxJobs) : scrape_jobs(found)
    \/ \E sink \in Sinks, written \in WrittenBefore : write(sink, written)
    \/ \E found \in SeqsUpTo(RunJobs, MaxJobs) : daily_chore(found)

SpecRun == InitRun /\ [][NextRun]_vars

----------------------------------------------------------------------------
(* The blacklist store: BlacklistFileBasedAdapter behind the blacklist     *)
(* methods of JobOrchestrator.                                             *)

\* BlacklistFileBasedAdapter.write: one line per entity.
BlacklistWrite(entities) == entities

\* BlacklistFileBasedAdapter.add
BlacklistAdd(file, entity) ==
    BlacklistWrite(Sorted(Range(BlacklistGet(file)) \cup {entity}))

\* BlacklistFileBasedAdapter.remove
BlacklistRemove(file, entity) ==
    BlacklistWrite(Sorted(Range(BlacklistGet(file)) \ {entity}))

\* What a blacklist method leaves of the orchestrator.
BlacklistCall(method, entity) ==
    /\ op' = method
    /\ arg_entity' = entity
    /\ NoDataframe
    /\ UNCHANGED <<jobs_csv, companies_jsonl, jobs_jsonl, _jobs, _companies,
                   scrape_calls, scraped_jobs, job_gets, company_gets,
                   actors, run, nvars, mvars, ivars, kvars>>

\* add_to_blacklist(company_name)
add_to_blacklist(company_name) ==
    /\ company_blacklist_txt' = BlacklistAdd(company_blacklist_txt, company_name)
    /\ UNCHANGED job_blacklist_txt
    /\ BlacklistCall("add_to_blacklist", company_name)

\* remove_from_blacklist(company_name)
remove_from_blacklist(company_name) ==
    /\ company_blacklist_txt' = BlacklistRemove(company_blacklist_txt, company_name)
    /\ UNCHANGED job_blacklist_txt
    /\ BlacklistCall("remove_from_blacklist", company_name)

\* add_to_job_blacklist(job_id)
add_to_job_blacklist(job_id) ==
    /\ job_blacklist_txt' = BlacklistAdd(job_blacklist_txt, job_id)
    /\ UNCHANGED company_blacklist_txt
    /\ BlacklistCall("add_to_job_blacklist", job_id)

\* remove_from_job_blacklist(job_id)
remove_from_job_blacklist(job_id) ==
    /\ job_blacklist_txt' = BlacklistRemove(job_blacklist_txt, job_id)
    /\ UNCHANGED company_blacklist_txt
    /\ BlacklistCall("remove_from_job_blacklist", job_id)

\* A company name as a file of names can spell it, with a blank behind it.
NameAcmePadded == NameAcme \o <<" ">>

\* The company names given to the blacklist methods.
BlacklistNames == {NameAcme, NameAcmeAG, NameAcmePadded}

\* The blacklist files right after _ensure_file_exists created them.
InitBlacklist ==
    /\ jobs_csv = <<>>
    /\ companies_jsonl = <<>>
    /\ company_blacklist_txt = <<>>
    /\ job_blacklist_txt = <<>>
    /\ Fresh
    /\ NoNames
    /\ NoMatches
    /\ NoActors
    /\ NoMerge
    /\ NoResult

NextBlacklist ==
    \/ \E company_name \in BlacklistNames : add_to_blacklist(company_name)
    \/ \E company_name \in BlacklistNames : remove_from_blacklist(company_name)
    \/ \E job_id \in JobIds : add_to_job_blacklist(job_id)
    \/ \E job_id \in JobIds : remove_from_job_blacklist(job_id)

SpecBlacklist == InitBlacklist /\ [][NextBlacklist]_vars

----------------------------------------------------------------------------
(* get_jobs_dataframe stage by stage, beside the blacklist methods called  *)
(* by another session.                                                     *)

\* get_jobs_dataframe(min_rating) up to the merge: deduplicate_jobs, the
\* two frames, the early return and the join
get_jobs_dataframe_merge(min_rating) ==
    LET deduplicated_jobs == DedupJobs(JobsOf(_jobs))
        held_jobs == JobsOf(deduplicated_jobs)
        held_companies == CompaniesOf(_companies)
    IN /\ run.pc = "idle"
       /\ _jobs' = held_jobs
       /\ _companies' = held_companies
       /\ job_gets' = Counted(job_gets + GetCalls(_jobs, JobQueryGet, 3))
       /\ company_gets' = Counted(company_gets
                                      + GetCalls(_companies, CompanyQueryGet, 1))
       /\ arg_min_rating' = min_rating
       /\ arg_apply_blacklist' = TRUE
       /\ df' = <<>>
       /\ IF held_jobs = <<>>
          THEN /\ op' = "get_jobs_dataframe"
               /\ raised' = "none"
               /\ UNCHANGED run
          ELSE IF held_companies = <<>>
          THEN /\ op' = "get_jobs_dataframe"
               /\ raised' = "KeyError"
               /\ UNCHANGED run
          ELSE /\ op' = "merge"
               /\ raised' = "none"
               /\ run' = [pc |-> "merged",
                          merged |-> Merge(held_jobs, held_companies),
                          company_blacklist_txt |-> company_blacklist_txt,
                          job_blacklist_txt |-> job_blacklist_txt]
       /\ UNCHANGED <<Files, scrape_calls, scraped_jobs, arg_entity, actors,
                      nvars, mvars, ivars, kvars>>

\* get_jobs_dataframe: the company pass of the blacklist stage
get_jobs_dataframe_company_pass ==
    /\ run.pc = "merged"
    /\ run' = [run EXCEPT
                 !.pc = "company_pass",
                 !.merged = CompanyBlacklistPass(
                                run.merged, BlacklistGet(company_blacklist_txt))]
    /\ op' = "company_pass"
    /\ UNCHANGED <<ovars, arg_entity, actors, nvars, mvars, ivars, kvars>>

\* get_jobs_dataframe: the job pass of the blacklist stage, the rating
\* stage and the return
get_jobs_dataframe_return ==
    /\ run.pc = "company_pass"
    /\ df' = RatingStage(
                 JobBlacklistPass(run.merged, BlacklistGet(job_blacklist_txt)),
                 arg_min_rating)
    /\ run' = [run EXCEPT !.pc = "idle"]
    /\ op' = "get_jobs_dataframe"
    /\ UNCHANGED <<Files, _jobs, _companies, arg_min_rating, arg_apply_blacklist,
                   raised, scrape_calls, scraped_jobs, job_gets, company_gets,
                   arg_entity, actors, nvars, mvars, ivars, kvars>>

\* A blacklist method called by another session: the call record of the
\* session that runs get_jobs_dataframe stays as it is.
OtherSession(company_file, job_file) ==
    /\ company_blacklist_txt' = company_file
    /\ job_blacklist_txt' = job_file
    /\ UNCHANGED <<jobs_csv, companies_jsonl, jobs_jsonl, _jobs, _companies, op,
                   arg_min_rating, arg_apply_blacklist, df, raised, scrape_calls,
                   scraped_jobs, job_gets, company_gets, arg_entity, actors, run,
                   nvars, mvars, ivars, kvars>>

\* The blacklist methods of another session on the same files.
other_session ==
    \/ \E company_name \in {NameAcmeAG} :
          \/ OtherSession(BlacklistAdd(company_blacklist_txt, company_name),
                          job_blacklist_txt)
          \/ OtherSession(BlacklistRemove(company_blacklist_txt, company_name),
                          job_blacklist_txt)
    \/ \E job_id \in {<<"1">>} :
          \/ OtherSession(company_blacklist_txt,
                          BlacklistAdd(job_blacklist_txt, job_id))
          \/ OtherSession(company_blacklist_txt,
                          BlacklistRemove(job_blacklist_txt, job_id))

InitSnapshot ==
    /\ jobs_csv \in SeqsUpTo(JobRecords, MaxJobs)
    /\ companies_jsonl \in SeqsUpTo([name : JobCompanyNames], 1)
    /\ company_blacklist_txt \in BlacklistFiles({NameAcmeAG})
    /\ job_blacklist_txt \in BlacklistFiles({<<"1">>})
    /\ Fresh
    /\ NoNames
    /\ NoMatches
    /\ NoActors
    /\ NoMerge
    /\ NoResult

NextSnapshot ==
    \/ \E m \in MinRatings : get_jobs_dataframe_merge(m)
    \/ get_jobs_dataframe_company_pass
    \/ get_jobs_dataframe_return
    \/ other_session

SpecSnapshot == InitSnapshot /\ [][NextSnapshot]_vars

----------------------------------------------------------------------------
(* scrape_company_rating of kununu_scraper_poc.py: the three strategies    *)
(* and the chain over them.                                                *)

\* The slugs _generate_company_slugs gives a name: at least one, and the
\* links of a search-engine result page that are tried.
MaxSlugs == 2
MaxLinks == 2

\* What an attempt on one page ends in: rating data extracted, no data, or
\* an exception raised on the way.
PageOutcomes == {"data", "no_data", "fault"}

\* What _extract_rating_from_page returns when it returns a dict: a rating,
\* a review count or both.
RatingData ==
    {[rating |-> Some(4), review_count |-> Some(7)],
     [rating |-> Some(4), review_count |-> Null],
     [rating |-> Null, review_count |-> Some(7)]}

\* KununuResult(company_name=company_name)
KununuResult(company_name) ==
    [company_name |-> company_name, rating |-> Null, review_count |-> Null,
     profile_url |-> Null, success |-> FALSE, error_message |-> Null]

\* The three assignments a strategy makes before it returns True.
Found(res, rating_data, url) ==
    [res EXCEPT !.rating = rating_data.rating,
                !.review_count = rating_data.review_count,
                !.profile_url = Some(url)]

\* The first page of a loop over pages that gives data, 0 when none does:
\* a page without data and a page that raises are both passed over.
FirstData(pages) ==
    LET with_data == {i \in 1..Len(pages) : pages[i] = "data"}
    IN IF with_data = {} THEN 0
       ELSE CHOOSE i \in with_data : \A k \in with_data : i <= k

\* A strategy that assigns the rating data before the page raises.
TrySearchPageAssigningFirst(res, page, rating_data) ==
    IF page \in {"data", "fault"}
    THEN [result |-> Found(res, rating_data, "search"), success |-> page = "data"]
    ELSE [result |-> res, success |-> FALSE]

\* _try_direct_company_page: one page per slug
_try_direct_company_page(res, slugs, rating_data) ==
    IF FirstData(slugs) # 0
    THEN [result |-> Found(res, rating_data, "direct"), success |-> TRUE]
    ELSE [result |-> res, success |-> FALSE]

\* _try_search_page
_try_search_page(res, page, rating_data) ==
    IF page = "data"
    THEN [result |-> Found(res, rating_data, "search"), success |-> TRUE]
    ELSE [result |-> res, success |-> FALSE]

\* _try_google_search_fallback: the result page, then one page per link
_try_google_search_fallback(res, google, rating_data) ==
    IF google.page # "fault" /\ FirstData(google.links) # 0
    THEN [result |-> Found(res, rating_data, "google"), success |-> TRUE]
    ELSE [result |-> res, success |-> FALSE]

\* The chain with the site search before the direct page.
ChainSearchFirst(company_name, met) ==
    LET first == _try_search_page(KununuResult(company_name), met.search, met.data)
        second == IF first.success THEN first
                  ELSE _try_direct_company_page(first.result, met.direct, met.data)
        third == IF second.success THEN second
                 ELSE _try_google_search_fallback(second.result, met.google, met.data)
    IN [result |-> [third.result EXCEPT !.success = third.success],
        tried |-> <<"search">>
                  \o (IF first.success THEN <<>> ELSE <<"direct">>)
                  \o (IF second.success THEN <<>> ELSE <<"google">>)]

\* The try block of scrape_company_rating: the result and the strategies
\* called, in order.
Chain(company_name, met) ==
    LET first == _try_direct_company_page(KununuResult(company_name),
                                          met.direct, met.data)
        second == IF first.success THEN first
                  ELSE _try_search_page(first.result, met.search, met.data)
        third == IF second.success THEN second
                 ELSE _try_google_search_fallback(second.result, met.google, met.data)
    IN [result |-> [third.result EXCEPT !.success = third.success],
        tried |-> <<"direct">>
                  \o (IF first.success THEN <<>> ELSE <<"search">>)
                  \o (IF second.success THEN <<>> ELSE <<"google">>)]

\* scrape_company_rating(outcomes.company_name) with the pages ending as
\* outcomes says
scrape_company_rating ==
    /\ tried' = Chain(outcomes.company_name, outcomes).tried
    /\ result' = Chain(outcomes.company_name, outcomes).result
    /\ op' = "scrape_company_rating"
    /\ UNCHANGED <<ovars, nvars, mvars, bvars, ivars, outcomes>>

\* A requested name and what the pages of the call end in.
Met ==
    [company_name : JobCompanyNames,
     direct : SeqsUpTo(PageOutcomes, MaxSlugs) \ {<<>>},
     search : PageOutcomes,
     google : [page : {"ok", "fault"}, links : SeqsUpTo(PageOutcomes, MaxLinks)],
     data : RatingData]

InitPoc ==
    /\ jobs_csv = <<>>
    /\ companies_jsonl = <<>>
    /\ company_blacklist_txt = <<>>
    /\ job_blacklist_txt = <<>>
    /\ Fresh
    /\ NoNames
    /\ NoMatches
    /\ NoActors
    /\ NoMerge
    /\ outcomes \in Met
    /\ tried = <<>>
    /\ result = KununuResult(<<>>)

NextPoc == scrape_company_rating

SpecPoc == InitPoc /\ [][NextPoc]_vars

----------------------------------------------------------------------------
(* merge_companies of import_kununu_companies.py. *)

\* {c.name.lower() for c in existing_companies}
LowerNames(cs) == {Lower(cs[i].name) : i \in 1..Len(cs)}

\* merge_companies(existing_companies, new_companies): the existing list,
\* then every new company whose lower-cased name no existing company has.
merge_companies(existing, new) ==
    LET existing_names == LowerNames(existing)
        NotExisting(c) == Lower(c.name) \notin existing_names
    IN existing \o SelectSeq(new, NotExisting)

\* merge_companies(arg_existing, arg_new)
merge_companies_call ==
    /\ merged_companies' = merge_companies(arg_existing, arg_new)
    /\ op' = "merge_companies"
    /\ UNCHANGED <<ovars, nvars, mvars, bvars, kvars, arg_existing, arg_new>>

\* The companies of the two lists: spellings that differ in case only, and
\* another name.
MergeCompanies == [name : CompanyNames, kununu_rating : {Some(3)}]

InitMerge ==
    /\ jobs_csv = <<>>
    /\ companies_jsonl = <<>>
    /\ company_blacklist_txt = <<>>
    /\ job_blacklist_txt = <<>>
    /\ Fresh
    /\ NoNames
    /\ NoMatches
    /\ NoActors
    /\ NoResult
    /\ arg_existing \in SeqsUpTo(MergeCompanies, MaxCompanies)
    /\ arg_new \in SeqsUpTo(MergeCompanies, MaxCompanies)
    /\ merged_companies = <<>>

NextMerge == merge_companies_call

SpecMerge == InitMerge /\ [][NextMerge]_vars

----------------------------------------------------------------------------
(* add and remove of BlacklistFileBasedAdapter statement by statement,     *)
(* called by two sessions on the job blacklist file.                       *)

\* The calls an actor makes.
BlacklistCalls == {"add", "remove"}

\* blacklist = set(self.get()), then blacklist.add(entity) or
\* blacklist.discard(entity): the first two statements of add and remove
blacklist_get(a, call, entity) ==
    /\ actors[a].pc = "idle"
    /\ actors' = [actors EXCEPT ![a] =
                     [pc |-> "write", call |-> call, entity |-> entity,
                      blacklist |->
                          IF call = "add"
                          THEN Range(BlacklistGet(job_blacklist_txt)) \cup {entity}
                          ELSE Range(BlacklistGet(job_blacklist_txt)) \ {entity}]]
    /\ op' = call
    /\ UNCHANGED <<ovars, arg_entity, run, nvars, mvars, ivars, kvars>>

\* self.write(sorted(blacklist)): the last statement of add and remove
blacklist_write(a) ==
    /\ actors[a].pc = "write"
    /\ job_blacklist_txt' = BlacklistWrite(Sorted(actors[a].blacklist))
    /\ actors' = [actors EXCEPT ![a].pc = "done"]
    /\ op' = actors[a].call
    /\ UNCHANGED <<jobs_csv, companies_jsonl, company_blacklist_txt, jobs_jsonl,
                   _jobs, _companies, arg_min_rating, arg_apply_blacklist, df,
                   raised, scrape_calls, scraped_jobs, job_gets, company_gets,
                   arg_entity, run, nvars, mvars, ivars, kvars>>

InitInterleave ==
    /\ jobs_csv = <<>>
    /\ companies_jsonl = <<>>
    /\ company_blacklist_txt = <<>>
    /\ job_blacklist_txt \in BlacklistFiles(JobIds)
    /\ Fresh
    /\ NoNames
    /\ NoMatches
    /\ NoActors
    /\ NoMerge
    /\ NoResult

NextInterleave ==
    \/ \E a \in Actors, call \in BlacklistCalls, entity \in JobIds :
          blacklist_get(a, call, entity)
    \/ \E a \in Actors : blacklist_write(a)

SpecInterleave == InitInterleave /\ [][NextInterleave]_vars

----------------------------------------------------------------------------
(* Claims about get_jobs_dataframe, under SpecDataframe. *)

\* The last call was get_jobs_dataframe and it returned a DataFrame.
Returned == op = "get_jobs_dataframe" /\ raised = "none"

\* The blacklists the last call read.
CompanyBlacklist == Range(BlacklistGet(company_blacklist_txt))
JobBlacklist == Range(BlacklistGet(job_blacklist_txt))

\* The last call had nothing to filter by.
Unfiltered ==
    /\ CompanyBlacklist = {}
    /\ JobBlacklist = {}
    /\ arg_min_rating = 0

JobIdsOf(js) == {js[i].job_id : i \in 1..Len(js)}

\* C1: with no blacklist entries and min_rating 0, the DataFrame that
\* get_jobs_dataframe returns has exactly one row per deduplicated job, as
\* many rows as there are distinct job_ids, however many held companies
\* match a job.
JoinTotalOverJobs ==
    (Returned /\ Unfiltered)
        => Len(df) = Cardinality(JobIdsOf(jobs_csv))

Joined == BlacklistStage(Merge(_jobs, _companies), arg_apply_blacklist)

UnratedSurvives ==
    (Returned /\ arg_min_rating > 0 /\ CompanyBlacklist = {} /\ JobBlacklist = {})
        => \A j \in Range(_jobs) :
              ( /\ \E l \in Range(companies_jsonl) : l.name = j.company_name
                /\ \A l \in Range(companies_jsonl) :
                      l.name = j.company_name => "kununu_rating" \notin DOMAIN l )
                  => \E r \in Range(df) : r.job_id = j.job_id

----------------------------------------------------------------------------
(* Claims about the held lists, under Spec. *)

NamesOf(cs) == {cs[i].name : i \in 1..Len(cs)}

KeptPositions(js, blacklist) ==
    {i \in 1..Len(js) : js[i].job_id \notin blacklist}

\* The k-th smallest member of a set of positions.
KthOf(P, k) == CHOOSE i \in P : Cardinality({j \in P : j < i}) = k - 1

\* C8: filter_blacklisted_jobs removes exactly the held jobs whose job_id is
\* in the job blacklist, keeps the others in their order, changes nothing
\* when it runs a second time and nothing when the blacklist is empty.
FilterBlacklistedJobsExact ==
    [][op' = "filter_blacklisted_jobs"
          => LET kept == KeptPositions(_jobs, JobBlacklist) IN
             /\ Len(_jobs') = Cardinality(kept)
             /\ \A k \in 1..Len(_jobs') : _jobs'[k] = _jobs[KthOf(kept, k)]
             /\ JobBlacklist = {} => _jobs' = _jobs
             /\ op = "filter_blacklisted_jobs" => _jobs' = _jobs]_vars

FilterBlacklistedJobsWitness ==
    /\ op = "filter_blacklisted_jobs"
    /\ _jobs # <<>>
    /\ \E j \in Range(jobs_csv) : j.job_id \in JobBlacklist
    /\ \A j \in Range(_jobs) : j.job_id \notin JobBlacklist

----------------------------------------------------------------------------
(* Claims about normalize_name, under SpecNormalize. *)

\* C9: normalize_name is idempotent: normalizing a normalized name gives
\* the same key, also for names that end in several legal suffixes.
NormalizeIdempotent ==
    op = "normalize_again" => renormalized = normalized

\* C10: two names that differ only in letter case and in the length of
\* runs of spaces (leading, trailing or internal, also inside a legal
\* suffix of several words) normalize to the same key.
RespellingSameKey ==
    op = "normalize_name" => normalized = other_normalized

----------------------------------------------------------------------------
(* Claims about similarity_score, find_matches and main, under SpecMatch.  *)

\* C11: similarity_score is 0.0, never 1.0, when both names normalize to
\* the empty key, and find_matches reports no candidate for a query of
\* the empty key.
EmptyKeyScoresZero ==
    /\ ( /\ op = "similarity_score"
         /\ normalize_name(name) = <<>>
         /\ normalize_name(other_name) = <<>> )
          => ScoreEq(score, Zero)
    /\ (op = "find_matches" /\ normalize_name(name) = <<>>) => matches = <<>>

\* C12: similarity_score is symmetric: similarity_score(a, b) equals
\* similarity_score(b, a) for all names a and b.
SimilaritySymmetric ==
    op = "similarity_score" => ScoreEq(score, swapped_score)

\* The candidates the last find_matches call was given.
Candidates == CompanyQueryGet

\* The scores of the candidates cs against the query, in their order.
RECURSIVE ScoresOf(_)
ScoresOf(cs) ==
    IF cs = <<>> THEN <<>>
    ELSE <<similarity_score(name, Head(cs).name)>> \o ScoresOf(Tail(cs))

\* The positions of the scores that reach the threshold.
Qualifying(scores) ==
    {i \in 1..Len(scores) : ScoreGE(scores[i], arg_threshold)}

\* Candidate i is listed before candidate k: its score is higher, or the
\* same and it comes first in the candidate list.
ListedBefore(scores, i, k) ==
    /\ ScoreGE(scores[i], scores[k])
    /\ ScoreEq(scores[i], scores[k]) => i < k

\* The qualifying position with k - 1 qualifying positions listed before it.
NthQualifying(scores, k) ==
    CHOOSE i \in Qualifying(scores) :
        Cardinality({q \in Qualifying(scores) : ListedBefore(scores, q, i)}) = k - 1

\* What find_matches is to return for candidates of these scores.
SelectedBy(scores) ==
    /\ raised = "none"
    /\ Len(matches) = IF arg_top_n < Cardinality(Qualifying(scores))
                      THEN arg_top_n
                      ELSE Cardinality(Qualifying(scores))
    /\ \A k \in 1..Len(matches) :
          LET i == NthQualifying(scores, k)
          IN matches[k] = Match(Candidates[i].name, scores[i])

FindMatchesSelected == op = "find_matches" => SelectedBy(ScoresOf(Candidates))

\* C13: find_matches returns the first top_n of the candidates whose score
\* is at least the threshold, by descending score, candidates of equal
\* score in their order in the candidate list; the result is empty and no
\* error is raised when no candidate reaches the threshold; a second call
\* on the same input returns the same list.
FindMatchesExact ==
    /\ []FindMatchesSelected
    /\ [][(op = "find_matches" /\ op' = "find_matches") => matches' = matches]_vars

FindMatchesWitness ==
    /\ op = "find_matches"
    /\ Len(matches) = 3
    /\ ScoreEq(matches[1].score, matches[2].score)
    /\ matches[1].name # matches[2].name
    /\ ~ScoreGE(matches[3].score, matches[2].score)
    /\ matches[3].name = Candidates[1].name

\* The last result is a single match of score 1.0.
SinglePerfect == Len(matches) = 1 /\ ScoreEq(matches[1].score, One)

\* C14: main treats a name as a confirmed match only when find_matches
\* returns a single result of score 1.0, reports every other non-empty
\* result as candidates, also several results the first of which scores
\* 1.0, and an empty result as unresolved.
ConfirmedOnlyWhenSingle ==
    (op = "main" /\ printed # <<>>)
        => /\ printed[1].branch = "perfect match" <=> SinglePerfect
           /\ printed[1].branch = "candidates" <=> (matches # <<>> /\ ~SinglePerfect)
           /\ printed[1].branch = "no match found" <=> matches = <<>>

----------------------------------------------------------------------------
(* Claims about deduplication, under Spec. *)

\* The positions of cs whose lower-cased name no earlier position has.
FirstCompanies(cs) ==
    {i \in 1..Len(cs) : \A j \in 1..(i - 1) : Lower(cs[j].name) # Lower(cs[i].name)}

\* The positions of js whose job_id no earlier position has.
FirstJobs(js) ==
    {i \in 1..Len(js) : \A j \in 1..(i - 1) : js[j].job_id # js[i].job_id}

DedupIdempotent ==
    [][ /\ op' = "deduplicate_companies"
           => /\ Len(_companies') <= Len(CompaniesOf(_companies))
              /\ op = "deduplicate_companies" => _companies' = _companies
        /\ op' = "deduplicate_jobs"
           => /\ Len(_jobs') <= Len(JobsOf(_jobs))
              /\ op = "deduplicate_jobs" => _jobs' = _jobs ]_vars

DedupIdempotentWitness ==
    /\ op = "deduplicate_jobs"
    /\ _jobs # <<>>
    /\ Len(_jobs) < Len(jobs_csv)
    /\ DedupJobs(_jobs) = _jobs

\* C17: job deduplication is keyed by the job_id as written: after
\* deduplicate_jobs no two held jobs have the same job_id and every job_id
\* held before is still held; jobs of different ids are never merged,
\* whatever their other fields.
DedupJobsByJobId ==
    [][op' = "deduplicate_jobs"
          => /\ \A i, k \in 1..Len(_jobs') : i # k => _jobs'[i].job_id # _jobs'[k].job_id
             /\ JobIdsOf(_jobs') = JobIdsOf(JobsOf(_jobs))
             /\ Len(_jobs') = Cardinality(JobIdsOf(JobsOf(_jobs)))]_vars

DedupJobsByJobIdWitness ==
    /\ op = "deduplicate_jobs"
    /\ Len(_jobs) = 2
    /\ _jobs[1].job_id # _jobs[2].job_id
    /\ _jobs[1].company_name = _jobs[2].company_name

----------------------------------------------------------------------------
(* Claims about the re-scrape, under SpecRescrape. *)

\* The positions of the companies of the file that rescrape_companies
\* selects for refresh.
SelectedPositions ==
    {i \in 1..Len(companies_jsonl) : ToScrape(Company(companies_jsonl[i]))}

\* The step is a run of rescrape_companies that wrote the full set.
RescrapeWrote ==
    /\ op' = "rescrape_companies"
    /\ raised' = "none"
    /\ SelectedPositions # {}

\* The rating the k-th update call of the step returned.
RefreshedRating(k) ==
    IF scrape_calls'[k].status = "200" THEN Some(ScrapedRating) ELSE Null

\* C18: after rescrape_companies every company that was selected for
\* refresh, scraped under its own name or under its first alternative
\* name, is in the written full set with the rating its scrape returned.
RescrapeMergesBack ==
    [][RescrapeWrote
          => \A k \in 1..Cardinality(SelectedPositions) :
                LET i == KthOf(SelectedPositions, k)
                IN /\ i <= Len(companies_jsonl')
                   /\ companies_jsonl'[i].name = companies_jsonl[i].name
                   /\ companies_jsonl'[i].kununu_rating = RefreshedRating(k)]_vars

UpdateIsolatesFailures ==
    [][ /\ op' = "rescrape_companies"
           => /\ Len(scrape_calls') = Cardinality(SelectedPositions)
              /\ raised' = "none"
        /\ op' = "rescrape_everything"
           => /\ Len(scrape_calls') = Len(companies_jsonl)
              /\ raised' = "none" ]_vars

----------------------------------------------------------------------------
(* Claims about the daily run, under SpecRun. *)

\* C21: a write() that fails leaves both persisted files as they were
\* before the call: neither file partially written, nor the company file
\* updated and the job file not.
WriteAllOrNothing ==
    [][(op' = "write" /\ raised' # "none")
           => /\ companies_jsonl' = companies_jsonl
              /\ jobs_jsonl' = jobs_jsonl]_vars

\* C22: when daily_chore has completed, jobs.jsonl holds the jobs of the
\* scrape of that run whose job_id is not blacklisted, one per job_id, and
\* nothing else.
DailyChorePersistsScrape ==
    [][(op' = "daily_chore" /\ raised' = "none")
           => /\ JobIdsOf(jobs_jsonl') =
                     JobIdsOf(scraped_jobs') \ Range(BlacklistGet(job_blacklist_txt))
              /\ Len(jobs_jsonl') = Cardinality(JobIdsOf(jobs_jsonl'))
              /\ Range(jobs_jsonl') \subseteq Range(scraped_jobs')]_vars

----------------------------------------------------------------------------
(* Claims about the blacklist store, under SpecBlacklist. *)

\* The number of times x is listed in s.
Occurrences(s, x) == Cardinality({i \in 1..Len(s) : s[i] = x})

\* get() lists x once and every other entry as before.
AddedTo(file_before, file_after, x) ==
    /\ Occurrences(BlacklistGet(file_after), x) = 1
    /\ Range(BlacklistGet(file_after)) \ {x} = Range(BlacklistGet(file_before)) \ {x}

\* get() does not list x and lists every other entry as before.
RemovedFrom(file_before, file_after, x) ==
    /\ Occurrences(BlacklistGet(file_after), x) = 0
    /\ Range(BlacklistGet(file_after)) \ {x} = Range(BlacklistGet(file_before)) \ {x}

\* C23: after add(x), get() contains x exactly once; after remove(x), get()
\* does not contain x; in both cases the other entries are as before, so
\* that adding a present entry or removing an absent one changes nothing.
BlacklistIsSet ==
    [][/\ op' = "add_to_blacklist"
            => AddedTo(company_blacklist_txt, company_blacklist_txt', arg_entity')
       /\ op' = "remove_from_blacklist"
            => RemovedFrom(company_blacklist_txt, company_blacklist_txt', arg_entity')
       /\ op' = "add_to_job_blacklist"
            => AddedTo(job_blacklist_txt, job_blacklist_txt', arg_entity')
       /\ op' = "remove_from_job_blacklist"
            => RemovedFrom(job_blacklist_txt, job_blacklist_txt', arg_entity')]_vars

----------------------------------------------------------------------------
(* Claims about the blacklist snapshot of one run, under SpecSnapshot. *)

----------------------------------------------------------------------------
(* Claims about scrape_company_rating, under SpecPoc. *)

\* C25: a result with success = False has no rating, no review count and
\* no profile URL, and carries the requested name, whichever pages yielded
\* nothing or raised.
FailedResultIsEmpty ==
    (op = "scrape_company_rating" /\ ~result.success)
        => /\ result.rating = Null
           /\ result.review_count = Null
           /\ result.profile_url = Null
           /\ result.company_name = outcomes.company_name

\* C25: a scrape has failed with an exception raised inside a strategy.
FailedResultWitness ==
    /\ op = "scrape_company_rating"
    /\ ~result.success
    /\ outcomes.search = "fault"
    /\ outcomes.company_name = NameAcmeAG

\* Whether a strategy succeeded on the pages it met.
Succeeded(strategy) ==
    CASE strategy = "direct" -> \E i \in 1..Len(outcomes.direct) :
                                    outcomes.direct[i] = "data"
      [] strategy = "search" -> outcomes.search = "data"
      [] strategy = "google" -> /\ outcomes.google.page = "ok"
                                /\ \E i \in 1..Len(outcomes.google.links) :
                                       outcomes.google.links[i] = "data"

\* The strategies in the order of the chain.
StrategyOrder == <<"direct", "search", "google">>

\* C27: the strategies are called in the order direct page, site search,
\* search-engine fallback, up to the first that succeeds and no further; a
\* strategy that raised counts as failed and the next one is called; and
\* success is true exactly when a called strategy succeeded.
ChainInOrder ==
    op = "scrape_company_rating"
        => /\ tried = SubSeq(StrategyOrder, 1, Len(tried))
           /\ Len(tried) \in 1..3
           /\ \A i \in 1..(Len(tried) - 1) : ~Succeeded(tried[i])
           /\ Len(tried) < 3 => Succeeded(tried[Len(tried)])
           /\ result.success <=> \E i \in 1..Len(tried) : Succeeded(tried[i])
           /\ result.success <=> \E i \in 1..3 : Succeeded(StrategyOrder[i])

\* C27: the direct page raised on every slug and the site search succeeded,
\* so that the chain stopped before the search-engine fallback.
ChainWitness ==
    /\ op = "scrape_company_rating"
    /\ \A i \in 1..Len(outcomes.direct) : outcomes.direct[i] = "fault"
    /\ tried = <<"direct", "search">>
    /\ result.success
    /\ Succeeded("google")

----------------------------------------------------------------------------
(* Claims about the loads of one orchestrator, under Spec. *)

\* C26: one orchestrator calls the job source's get() at most once and the
\* company source's get() at most once, whatever accessors and stages run
\* and however empty the loaded or filtered lists are.
SourcesReadOnce == job_gets <= 1 /\ company_gets <= 1

----------------------------------------------------------------------------
(* Claims about merge_companies, under SpecMerge. *)

\* No two companies of cs have the same lower-cased name.
DistinctLowerNames(cs) ==
    \A i, k \in 1..Len(cs) : Lower(cs[i].name) = Lower(cs[k].name) => i = k

\* C28: the merged list starts with the existing companies in their order
\* and, when no two existing companies share a lower-cased name, no two
\* merged companies do, whatever the new list is.
MergeAvoidsDuplicates ==
    op = "merge_companies"
        => /\ Len(merged_companies) >= Len(arg_existing)
           /\ SubSeq(merged_companies, 1, Len(arg_existing)) = arg_existing
           /\ DistinctLowerNames(arg_existing) => DistinctLowerNames(merged_companies)

----------------------------------------------------------------------------
(* Claims about the filtered list, under SpecRun. *)

\* No job of js has a job_id the job blacklist lists.
NoneBlacklisted(js) ==
    \A i \in 1..Len(js) : js[i].job_id \notin Range(BlacklistGet(job_blacklist_txt))

\* C29: when filter_blacklisted_jobs has returned with a non-empty job
\* blacklist, the jobs() that follows returns no blacklisted job and the
\* write() that follows persists none, whether or not jobs were loaded
\* before the filter and also when the filter removed every job.
FilteredStaysFiltered ==
    [][(/\ op = "filter_blacklisted_jobs"
        /\ BlacklistGet(job_blacklist_txt) # <<>>
        /\ op' \in {"jobs", "write"})
           => /\ NoneBlacklisted(_jobs')
              /\ (op' = "write" /\ raised' = "none") => NoneBlacklisted(jobs_jsonl')]_vars

----------------------------------------------------------------------------
(* Claims about concurrent blacklist updates, under SpecInterleave. *)

\* C30: when two actors have each completed an add or a remove, of
\* different entries, the file lists every added entry and no removed one.
NoLostUpdate ==
    (/\ \A a \in Actors : actors[a].pc = "done"
     /\ \A a, b \in Actors : a # b => actors[a].entity # actors[b].entity)
        => \A a \in Actors :
              IF actors[a].call = "add"
              THEN actors[a].entity \in Range(BlacklistGet(job_blacklist_txt))
              ELSE actors[a].entity \notin Range(BlacklistGet(job_blacklist_txt))

============================================================================
